---- MODULE Spec2Model ----
(***************************************************************************)
(* Model of customer_support.py: the credential lookup, the Markdown       *)
(* output writer and the top-level script that builds the crew, kicks it   *)
(* off once and saves the result.                                          *)
(*                                                                         *)
(* Text is a sequence of one-character strings, so that formatting,        *)
(* truncation and concatenation are computed and not assumed.  A path is   *)
(* text with "/" between its components, relative to the working           *)
(* directory (which always exists).                                        *)
(***************************************************************************)
EXTENDS Integers, Sequences, FiniteSets, TLC

VARIABLES
    env,            \* process environment: the two variables the script touches
    dirs,           \* file system: the set of directories (paths)
    files,          \* file system: regular files, path -> body
    pc,             \* position of the script (Spec) or of the caller (SpecFn)
    openai_api_key, \* module global set at line 28
    agents,         \* the agents built so far (lines 95-97)
    tasks,          \* the tasks built so far (lines 159-160)
    crew,           \* the Crew built at lines 162-167
    kickoffs,       \* the crew.kickoff calls made: the crew and inputs of each
    result,         \* what crew.kickoff returned
    exc,            \* the exception that ended the last call or the run
    ret,            \* the value the last call returned
    trace,          \* the script's steps so far, in order
    last,           \* the last save_output_markdown call: inputs, draws, steps
    saved,          \* the successful save_output_markdown calls of this process
    calls,          \* number of harness calls made (SpecFn)
    env0,           \* the environment the process started with
    fs0             \* the file system the process started with

vars == <<env, dirs, files, pc, openai_api_key, agents, tasks, crew, kickoffs,
          result, exc, ret, trace, last, saved, calls, env0, fs0>>

\* -------------------------------------------------------------------------
\* Bounds of the model
MaxCalls == 2

\* -------------------------------------------------------------------------
\* Text helpers

Digits == <<"0", "1", "2", "3", "4", "5", "6", "7", "8", "9">>
HexDigits == <<"0", "1", "2", "3", "4", "5", "6", "7", "8", "9",
               "a", "b", "c", "d", "e", "f">>

Range(s) == {s[i] : i \in DOMAIN s}

RECURSIVE Dec(_)
\* decimal digits of a natural number, no padding (format "%d")
Dec(n) == IF n < 10 THEN <<Digits[n + 1]>>
          ELSE Dec(n \div 10) \o <<Digits[(n % 10) + 1]>>

RECURSIVE ZeroPad(_, _)
\* left-pads with "0" up to width w; never truncates (format "%0wd")
ZeroPad(s, w) == IF Len(s) >= w THEN s ELSE ZeroPad(<<"0">> \o s, w)

\* one 16-bit word as four lowercase hex digits (format "%04x")
Hex4(w) == <<HexDigits[((w \div 4096) % 16) + 1],
             HexDigits[((w \div 256) % 16) + 1],
             HexDigits[((w \div 16) % 16) + 1],
             HexDigits[(w % 16) + 1]>>

RECURSIVE Concat(_)
Concat(ss) == IF ss = <<>> THEN <<>> ELSE Head(ss) \o Concat(Tail(ss))

StartsWith(s, p) == Len(s) >= Len(p) /\ SubSeq(s, 1, Len(p)) = p
EndsWith(s, p) == Len(s) >= Len(p) /\ SubSeq(s, Len(s) - Len(p) + 1, Len(s)) = p

\* -------------------------------------------------------------------------
\* Python values that can be passed as `content` or found in `result.raw`

PyString(s) == [kind |-> "str", s |-> s, n |-> 0]
PyInt(n) == [kind |-> "int", s |-> <<>>, n |-> n]
PyBool(b) == [kind |-> "bool", s |-> <<>>, n |-> IF b THEN 1 ELSE 0]
PyNone == [kind |-> "NoneType", s |-> <<>>, n |-> 0]

\* str(v), as the interpreter computes it for these types
PyStr(v) ==
    CASE v.kind = "str" -> v.s
      [] v.kind = "int" -> IF v.n < 0 THEN <<"-">> \o Dec(0 - v.n) ELSE Dec(v.n)
      [] v.kind = "bool" -> IF v.n = 1 THEN <<"T", "r", "u", "e">>
                            ELSE <<"F", "a", "l", "s", "e">>
      [] v.kind = "NoneType" -> <<"N", "o", "n", "e">>

\* -------------------------------------------------------------------------
\* get_openai_api_key (lines 17-25)

Unset == [set |-> FALSE, val |-> ""]
EnvVal(v) == [set |-> TRUE, val |-> v]

\* faulty variant: the test `api_key is None` in place of `not api_key`
FalsyNoneOnly(e) == ~e.set

\* `not api_key`: os.getenv gives None when unset; None and "" are falsy
Falsy(e) == ~e.set \/ e.val = ""

\* faulty variant: the lookup without the check
GetOpenaiApiKeyNoRaise(e) ==
    [ok |-> TRUE, val |-> e.OPENAI_API_KEY.val, exc |-> "none"]

GetOpenaiApiKey(e) ==
    IF Falsy(e.OPENAI_API_KEY)
    THEN [ok |-> FALSE, val |-> "", exc |-> "RuntimeError"]
    ELSE [ok |-> TRUE, val |-> e.OPENAI_API_KEY.val, exc |-> "none"]

\* -------------------------------------------------------------------------
\* save_output_markdown (lines 32-54)

Slash == "/"

\* the directories a path lies in, outermost first, the path itself last
Ancestors(p) ==
    {SubSeq(p, 1, i - 1) : i \in {j \in DOMAIN p : p[j] = Slash}} \cup {p}

\* faulty variant: Path.mkdir() with neither parents nor exist_ok
MkdirNoParents(ds, fs, p, fault) ==
    LET blocked == {a \in Ancestors(p) : a \in DOMAIN fs}
    IN  IF fault = "mkdir_EACCES"
        THEN [ok |-> FALSE, dirs |-> ds, exc |-> "PermissionError"]
        ELSE IF p \in blocked \/ p \in ds
        THEN [ok |-> FALSE, dirs |-> ds, exc |-> "FileExistsError"]
        ELSE IF blocked # {}
        THEN [ok |-> FALSE, dirs |-> ds, exc |-> "NotADirectoryError"]
        ELSE IF ~(Ancestors(p) \ {p} \subseteq ds)
        THEN [ok |-> FALSE, dirs |-> ds, exc |-> "FileNotFoundError"]
        ELSE [ok |-> TRUE, dirs |-> ds \cup {p}, exc |-> "none"]

\* Path.mkdir(parents=True, exist_ok=True) (line 38)
MkdirParents(ds, fs, p, fault) ==
    LET blocked == {a \in Ancestors(p) : a \in DOMAIN fs}
    IN  IF fault = "mkdir_EACCES"
        THEN [ok |-> FALSE, dirs |-> ds, exc |-> "PermissionError"]
        ELSE IF p \in blocked
        THEN [ok |-> FALSE, dirs |-> ds, exc |-> "FileExistsError"]
        ELSE IF blocked # {}
        THEN [ok |-> FALSE, dirs |-> ds, exc |-> "NotADirectoryError"]
        ELSE [ok |-> TRUE, dirs |-> ds \cup Ancestors(p), exc |-> "none"]

\* faulty variant: the fields without zero padding ("%-m" for "%m", and so on)
StrftimeNoPad(c) ==
    Dec(c.year) \o Dec(c.month) \o Dec(c.day) \o <<"T">>
    \o Dec(c.hour) \o Dec(c.minute) \o Dec(c.second) \o <<"Z">>

\* datetime.now(timezone.utc).strftime("%Y%m%dT%H%M%SZ") (line 40)
Strftime(c) ==
    Dec(c.year) \o ZeroPad(Dec(c.month), 2) \o ZeroPad(Dec(c.day), 2)
    \o <<"T">>
    \o ZeroPad(Dec(c.hour), 2) \o ZeroPad(Dec(c.minute), 2)
    \o ZeroPad(Dec(c.second), 2) \o <<"Z">>

\* uuid.uuid4(): 16 random bytes (here eight 16-bit words) with the version
\* and variant bits forced; .hex is the 32 lowercase hex digits
Uuid4(rand) ==
    [i \in 1..8 |->
        IF i = 4 THEN 16384 + (rand[i] % 4096)
        ELSE IF i = 5 THEN 32768 + (rand[i] % 16384)
        ELSE rand[i]]

UuidHex(u) == Concat([i \in 1..8 |-> Hex4(u[i])])

\* uuid.uuid4().hex[:8] (line 41)
RunId(rand) == SubSeq(UuidHex(Uuid4(rand)), 1, 8)

\* faulty variant: the two fields of the name in the other order
FileNameSwapped(ts, uid) ==
    <<"c", "u", "s", "t", "o", "m", "e", "r", "_",
      "s", "u", "p", "p", "o", "r", "t", "_">>
    \o uid \o <<"_">> \o ts \o <<".", "m", "d">>

\* f"customer_support_{ts}_{uid}.md" (line 42)
FileName(ts, uid) ==
    <<"c", "u", "s", "t", "o", "m", "e", "r", "_",
      "s", "u", "p", "p", "o", "r", "t", "_">>
    \o ts \o <<"_">> \o uid \o <<".", "m", "d">>

\* base / name (line 42)
JoinPath(base, name) == base \o <<Slash>> \o name

\* the header (lines 44-48)
Header(ts, uid) ==
    <<"#", " ", "C", "u", "s", "t", "o", "m", "e", "r", " ",
      "S", "u", "p", "p", "o", "r", "t", " ",
      "R", "e", "s", "p", "o", "n", "s", "e", "\n", "\n">>
    \o <<"G", "e", "n", "e", "r", "a", "t", "e", "d", ":", " ">> \o ts
    \o <<" ", "U", "T", "C", "\n">>
    \o <<"R", "u", "n", " ", "I", "D", ":", " ">> \o uid
    \o <<"\n", "\n">>

\* faulty variant: a newline appended to the text
ToTextTrailingNewline(content) ==
    (IF content.kind # "str" THEN PyStr(content) ELSE content.s) \o <<"\n">>

\* lines 50-51
ToText(content) == IF content.kind # "str" THEN PyStr(content) ELSE content.s

\* Path.write_text(data, encoding="utf-8") (line 53): open for writing
\* (create or truncate), write, close
WriteText(fs, path, data, fault) ==
    LET put(body) == [p \in DOMAIN fs \cup {path} |->
                         IF p = path THEN body ELSE fs[p]]
    IN  IF fault = "write_EACCES"
        THEN [ok |-> FALSE, files |-> fs, exc |-> "PermissionError"]
        ELSE IF fault = "write_ENOSPC"
        THEN [ok |-> FALSE, files |-> put(<<>>), exc |-> "OSError"]
        ELSE [ok |-> TRUE, files |-> put(data), exc |-> "none"]

NoPath == <<>>

\* faulty variant: a failed write is caught and tried once more
SaveOutputMarkdownRetry(ds, fs, content, outputs_dir, clock, rand, fault) ==
    LET base == outputs_dir
        mk == MkdirParents(ds, fs, base, fault)
        ts == Strftime(clock)
        uid == RunId(rand)
        file_path == JoinPath(base, FileName(ts, uid))
        text == Header(ts, uid) \o ToText(content)
        wr == WriteText(fs, file_path, text, "none")
    IN  IF ~mk.ok
        THEN [ok |-> FALSE, dirs |-> mk.dirs, files |-> fs, ret |-> NoPath,
              exc |-> mk.exc, ops |-> <<"mkdir">>,
              ts |-> <<>>, uid |-> <<>>, written |-> NoPath]
        ELSE [ok |-> TRUE, dirs |-> mk.dirs, files |-> wr.files, ret |-> file_path,
              exc |-> "none",
              ops |-> IF fault \in {"write_EACCES", "write_ENOSPC"}
                      THEN <<"mkdir", "write_text", "write_text">>
                      ELSE <<"mkdir", "write_text">>,
              ts |-> ts, uid |-> uid, written |-> file_path]

\* the whole function: what it leaves on the file system, what it returns or
\* raises, and the file-system operations it made
SaveOutputMarkdown(ds, fs, content, outputs_dir, clock, rand, fault) ==
    LET base == outputs_dir
        mk == MkdirParents(ds, fs, base, fault)
        ts == Strftime(clock)
        uid == RunId(rand)
        file_path == JoinPath(base, FileName(ts, uid))
        text == Header(ts, uid) \o ToText(content)
        wr == WriteText(fs, file_path, text, fault)
    IN  IF ~mk.ok
        THEN [ok |-> FALSE, dirs |-> mk.dirs, files |-> fs, ret |-> NoPath,
              exc |-> mk.exc, ops |-> <<"mkdir">>,
              ts |-> <<>>, uid |-> <<>>, written |-> NoPath]
        ELSE IF ~wr.ok
        THEN [ok |-> FALSE, dirs |-> mk.dirs, files |-> wr.files, ret |-> NoPath,
              exc |-> wr.exc, ops |-> <<"mkdir", "write_text">>,
              ts |-> ts, uid |-> uid, written |-> NoPath]
        ELSE [ok |-> TRUE, dirs |-> mk.dirs, files |-> wr.files, ret |-> file_path,
              exc |-> "none", ops |-> <<"mkdir", "write_text">>,
              ts |-> ts, uid |-> uid, written |-> file_path]

\* -------------------------------------------------------------------------
\* The script's objects (lines 56-176)

\* create_support_agent() (lines 56-73, 95)
CreateSupportAgent ==
    [name |-> "support_agent", role |-> "Senior Support Representative",
     allow_delegation |-> FALSE, verbose |-> TRUE]

\* create_quality_assurance_agent(allow_delegation=True) (lines 75-93, 97)
CreateQualityAssuranceAgent ==
    [name |-> "qa_agent", role |-> "Support Quality Assurance Specialist",
     allow_delegation |-> TRUE, verbose |-> TRUE]

\* create_inquiry_resolution_task(agent, tools=[scrape_tool]) (lines 103-128, 157-159)
CreateInquiryResolutionTask(agent) ==
    [name |-> "inquiry_resolution", agent |-> agent.name,
     tools |-> <<"scrape_tool">>]

\* create_quality_assurance_review_task(agent) (lines 130-155, 160)
CreateQualityAssuranceReviewTask(agent) ==
    [name |-> "quality_assurance_review", agent |-> agent.name, tools |-> <<>>]

\* faulty variant: the tasks in the other order
MakeCrewReversed(as, ts) ==
    [built |-> TRUE, agents |-> as, tasks |-> <<ts[2], ts[1]>>,
     verbose |-> TRUE, memory |-> TRUE]

\* Crew(agents=[...], tasks=[...], verbose=True, memory=True) (lines 162-167)
MakeCrew(as, ts) ==
    [built |-> TRUE, agents |-> as, tasks |-> ts, verbose |-> TRUE, memory |-> TRUE]

NoCrew == [built |-> FALSE, agents |-> <<>>, tasks |-> <<>>,
           verbose |-> FALSE, memory |-> FALSE]

\* a result object: whether it has a `raw` attribute, that attribute, and str(result)
ResultObj(hasRaw, raw, str) == [hasRaw |-> hasRaw, raw |-> raw, str |-> str]
NoResult == ResultObj(FALSE, PyNone, <<>>)

\* faulty variant: `result.raw or str(result)`
GetRawOrStrTruthy(r) ==
    IF r.hasRaw /\ ~(r.raw \in {PyNone, PyString(<<>>), PyInt(0), PyBool(FALSE)})
    THEN r.raw ELSE PyString(r.str)

\* getattr(result, "raw", str(result)) (line 180)
GetRawOrStr(r) == IF r.hasRaw THEN r.raw ELSE PyString(r.str)

DefaultOutputsDir == <<"o", "u", "t", "p", "u", "t", "s">>
ModelName == "gpt-3.5-turbo"

\* -------------------------------------------------------------------------
\* Inputs the model draws from

Hello == <<"H", "e", "l", "l", "o">>

Contents == {PyString(Hello), PyInt(0 - 7), PyNone}

OutputsDirs == {DefaultOutputsDir, <<"a", "/", "b">>}

\* datetime.now(timezone.utc): the system clock, from the epoch to datetime.MAXYEAR
Clock(y, mo, d, h, mi, s) ==
    [year |-> y, month |-> mo, day |-> d, hour |-> h, minute |-> mi, second |-> s]
Clocks == {Clock(1970, 1, 1, 0, 0, 0), Clock(9999, 12, 31, 23, 59, 59)}

\* os.urandom(16) as eight 16-bit words
Rands == {<<0, 0, 0, 0, 0, 0, 0, 0>>,
          <<0, 0, 1, 0, 0, 0, 0, 0>>,
          <<57005, 48879, 65535, 65535, 65535, 65535, 65535, 65535>>}

\* what the operating system can refuse
Faults == {"none", "mkdir_EACCES", "write_EACCES", "write_ENOSPC"}

EmptyFiles == [p \in {} |-> <<>>]
OneFile(path, body) == [p \in {path} |-> body]

InitFs ==
    {[dirs |-> {}, files |-> EmptyFiles],
     [dirs |-> {DefaultOutputsDir},
      files |-> OneFile(<<"o", "u", "t", "p", "u", "t", "s", "/",
                          "k", "e", "e", "p", ".", "t", "x", "t">>,
                        <<"o", "l", "d">>)],
     [dirs |-> {}, files |-> OneFile(<<"a">>, <<"x", "\n">>)],
     [dirs |-> {}, files |-> OneFile(DefaultOutputsDir, <<"x", "\n">>)]}

InitEnvs ==
    {[OPENAI_API_KEY |-> k, OPENAI_MODEL_NAME |-> m] :
        k \in {Unset, EnvVal(""), EnvVal(" "), EnvVal("sk-1")},
        m \in {Unset, EnvVal("gpt-4")}}

\* what crew.kickoff can return
Results ==
    {ResultObj(TRUE, PyString(Hello), Hello),
     ResultObj(TRUE, PyString(<<>>), <<"C", "r", "e", "w">>),
     ResultObj(TRUE, PyNone, <<"C", "r", "e", "w">>),
     ResultObj(TRUE, PyInt(42), <<"C", "r", "e", "w">>),
     ResultObj(FALSE, PyNone, Hello)}

NoCall == [op |-> "none", content |-> PyNone, outputs_dir |-> <<>>,
           fault |-> "none", ok |-> FALSE, ts |-> <<>>, uid |-> <<>>,
           ops |-> <<>>, written |-> NoPath, dirs |-> {}, files |-> EmptyFiles,
           key |-> Unset]

\* -------------------------------------------------------------------------
\* Initial states

InitCommon ==
    /\ env \in InitEnvs
    /\ \E f \in InitFs : dirs = f.dirs /\ files = f.files
    /\ openai_api_key = ""
    /\ agents = <<>>
    /\ tasks = <<>>
    /\ crew = NoCrew
    /\ kickoffs = <<>>
    /\ result = NoResult
    /\ exc = "none"
    /\ ret = NoPath
    /\ trace = <<>>
    /\ last = NoCall
    /\ saved = <<>>
    /\ calls = 0
    /\ env0 = env
    /\ fs0 = [dirs |-> dirs, files |-> files]

\* the script, from its first statement
Init == InitCommon /\ pc = "start"

\* the two functions, called by a caller in the same process
InitFn == InitCommon /\ pc = "harness" /\ env.OPENAI_MODEL_NAME = Unset

\* -------------------------------------------------------------------------
\* One save_output_markdown call and its record

SaveRecord(r, content, outputs_dir, fault) ==
    [op |-> "save_output_markdown", content |-> content,
     outputs_dir |-> outputs_dir, fault |-> fault, ok |-> r.ok,
     ts |-> r.ts, uid |-> r.uid, ops |-> r.ops, written |-> r.written,
     dirs |-> dirs, files |-> files, key |-> Unset]

\* -------------------------------------------------------------------------
\* SpecFn: a caller calls the two functions, up to MaxCalls times, and catches
\* nothing: the first exception ends it

CallSave ==
    /\ pc = "harness"
    /\ calls < MaxCalls
    /\ \E content \in Contents, outputs_dir \in OutputsDirs,
          clock \in Clocks, rand \in Rands, fault \in Faults :
          \E r \in {SaveOutputMarkdown(dirs, files, content, outputs_dir,
                                       clock, rand, fault)} :
              /\ dirs' = r.dirs
              /\ files' = r.files
              /\ ret' = r.ret
              /\ exc' = r.exc
              /\ last' = SaveRecord(r, content, outputs_dir, fault)
              /\ saved' = IF r.ok
                          THEN Append(saved, [outputs_dir |-> outputs_dir,
                                              path |-> r.ret,
                                              body |-> r.files[r.ret]])
                          ELSE saved
              /\ pc' = IF r.ok THEN "harness" ELSE "raised"
    /\ calls' = calls + 1
    /\ UNCHANGED <<env, openai_api_key, agents, tasks, crew, kickoffs,
                   result, trace, env0, fs0>>

CallGetKey ==
    /\ pc = "harness"
    /\ calls < MaxCalls
    /\ \E r \in {GetOpenaiApiKey(env)} :
           /\ openai_api_key' = IF r.ok THEN r.val ELSE openai_api_key
           /\ exc' = r.exc
           /\ last' = [NoCall EXCEPT !.op = "get_openai_api_key", !.ok = r.ok,
                                     !.key = env.OPENAI_API_KEY]
           /\ pc' = IF r.ok THEN "harness" ELSE "raised"
    /\ calls' = calls + 1
    /\ UNCHANGED <<env, dirs, files, agents, tasks, crew, kickoffs, result,
                   ret, trace, saved, env0, fs0>>

NextFn == CallSave \/ CallGetKey

SpecFn == InitFn /\ [][NextFn]_vars

\* -------------------------------------------------------------------------
\* Spec: the script, top to bottom; an exception nothing catches ends the run

\* lines 28-29
Startup ==
    /\ pc = "start"
    /\ \E r \in {GetOpenaiApiKey(env)} :
           IF r.ok
           THEN /\ openai_api_key' = r.val
                /\ env' = [env EXCEPT !.OPENAI_MODEL_NAME = EnvVal(ModelName)]
                /\ trace' = trace \o <<"get_openai_api_key", "set_model_name">>
                /\ pc' = "agents"
                /\ exc' = exc
           ELSE /\ exc' = r.exc
                /\ trace' = Append(trace, "get_openai_api_key")
                /\ pc' = "failed"
                /\ UNCHANGED <<openai_api_key, env>>
    /\ UNCHANGED <<dirs, files, agents, tasks, crew, kickoffs, result, ret,
                   last, saved, calls, env0, fs0>>

\* lines 95-97
CreateAgents ==
    /\ pc = "agents"
    /\ agents' = <<CreateSupportAgent, CreateQualityAssuranceAgent>>
    /\ trace' = trace \o <<"Agent", "Agent">>
    /\ pc' = "tasks"
    /\ UNCHANGED <<env, dirs, files, openai_api_key, tasks, crew, kickoffs,
                   result, exc, ret, last, saved, calls, env0, fs0>>

\* lines 157-160
CreateTasks ==
    /\ pc = "tasks"
    /\ tasks' = <<CreateInquiryResolutionTask(agents[1]),
                  CreateQualityAssuranceReviewTask(agents[2])>>
    /\ trace' = trace \o <<"ScrapeWebsiteTool", "Task", "Task">>
    /\ pc' = "crew"
    /\ UNCHANGED <<env, dirs, files, openai_api_key, agents, crew, kickoffs,
                   result, exc, ret, last, saved, calls, env0, fs0>>

\* lines 162-176
CreateCrew ==
    /\ pc = "crew"
    /\ crew' = MakeCrew(agents, tasks)
    /\ trace' = Append(trace, "Crew")
    /\ pc' = "kickoff"
    /\ UNCHANGED <<env, dirs, files, openai_api_key, agents, tasks, kickoffs,
                   result, exc, ret, last, saved, calls, env0, fs0>>

\* line 178: the framework runs the tasks and returns a result, or raises
Kickoff ==
    /\ pc = "kickoff"
    /\ kickoffs' = Append(kickoffs, crew)
    /\ \/ \E r \in Results :
              /\ result' = r
              /\ trace' = trace \o <<"kickoff", "kickoff_returned">>
              /\ pc' = "save"
              /\ exc' = exc
       \/ /\ exc' = "OrchestratorError"
          /\ trace' = trace \o <<"kickoff", "kickoff_raised">>
          /\ pc' = "failed"
          /\ result' = result
    /\ UNCHANGED <<env, dirs, files, openai_api_key, agents, tasks, crew, ret,
                   last, saved, calls, env0, fs0>>

\* lines 180-181
SaveAndPrint ==
    /\ pc = "save"
    /\ \E clock \in Clocks, rand \in Rands, fault \in Faults :
          \E content \in {GetRawOrStr(result)} :
          \E r \in {SaveOutputMarkdown(dirs, files, content, DefaultOutputsDir,
                                       clock, rand, fault)} :
              /\ dirs' = r.dirs
              /\ files' = r.files
              /\ ret' = r.ret
              /\ exc' = r.exc
              /\ last' = SaveRecord(r, content, DefaultOutputsDir, fault)
              /\ saved' = IF r.ok
                          THEN Append(saved, [outputs_dir |-> DefaultOutputsDir,
                                              path |-> r.ret,
                                              body |-> r.files[r.ret]])
                          ELSE saved
              /\ trace' = IF r.ok
                          THEN trace \o <<"save_output_markdown", "print">>
                          ELSE Append(trace, "save_output_markdown")
              /\ pc' = IF r.ok THEN "done" ELSE "failed"
    /\ UNCHANGED <<env, openai_api_key, agents, tasks, crew, kickoffs, result,
                   calls, env0, fs0>>

Next == Startup \/ CreateAgents \/ CreateTasks \/ CreateCrew \/ Kickoff
        \/ SaveAndPrint

Spec == Init /\ [][Next]_vars

\* -------------------------------------------------------------------------
\* Properties

IsSave == last.op = "save_output_markdown"
IsGetKey == last.op = "get_openai_api_key"

\* the name part of the returned path
ReturnedName == SubSeq(ret, Len(last.outputs_dir) + 2, Len(ret))

\* expected values, written out from the documented format
ExpectedHeader(ts, uid) ==
    <<"#", " ", "C", "u", "s", "t", "o", "m", "e", "r", " ", "S", "u", "p",
      "p", "o", "r", "t", " ", "R", "e", "s", "p", "o", "n", "s", "e", "\n",
      "\n", "G", "e", "n", "e", "r", "a", "t", "e", "d", ":", " ">>
    \o ts
    \o <<" ", "U", "T", "C", "\n", "R", "u", "n", " ", "I", "D", ":", " ">>
    \o uid \o <<"\n", "\n">>

ExpectedText(content) ==
    CASE content.kind = "str" -> content.s
      [] content = PyInt(0 - 7) -> <<"-", "7">>
      [] content = PyInt(42) -> <<"4", "2">>
      [] content = PyNone -> <<"N", "o", "n", "e">>

ExpectedParents(d) ==
    CASE d = <<"o", "u", "t", "p", "u", "t", "s">> ->
             {<<"o", "u", "t", "p", "u", "t", "s">>}
      [] d = <<"a", "/", "b">> -> {<<"a">>, <<"a", "/", "b">>}

RECURSIVE SplitLines(_)
SplitLines(s) ==
    IF \A i \in DOMAIN s : s[i] # "\n" THEN <<s>>
    ELSE LET i == CHOOSE k \in DOMAIN s :
                      s[k] = "\n" /\ \A j \in 1..(k - 1) : s[j] # "\n"
         IN  <<SubSeq(s, 1, i - 1)>> \o SplitLines(SubSeq(s, i + 1, Len(s)))

Count(seq, x) == Cardinality({i \in DOMAIN seq : seq[i] = x})
IndexOf(seq, x) == CHOOSE i \in DOMAIN seq : seq[i] = x

\* C1: two successful save_output_markdown calls of one process with the same
\* outputs_dir return two distinct paths, and the file of the earlier call
\* still holds what that call wrote.
C1_TwoCallsTwoFiles ==
    \A i, j \in DOMAIN saved :
        (i < j /\ saved[i].outputs_dir = saved[j].outputs_dir)
        => /\ saved[i].path # saved[j].path
           /\ files[saved[i].path] = saved[i].body

\* C2: get_openai_api_key returns exactly the value of OPENAI_API_KEY when it
\* is set and non-empty, and raises (returning nothing) when it is unset or
\* empty.
C2_GetKeyContract ==
    IsGetKey =>
        IF last.key.set /\ last.key.val # ""
        THEN /\ last.ok
             /\ exc = "none"
             /\ pc = "harness"
             /\ openai_api_key = last.key.val
        ELSE /\ ~last.ok
             /\ exc = "RuntimeError"
             /\ pc = "raised"
             /\ openai_api_key = ""

C2_Witness ==
    IsGetKey /\ last.key = EnvVal("") /\ exc = "RuntimeError"

\* C3: after a successful save_output_markdown the file at the returned path
\* is exactly the fixed header followed by the textual form of content
\* (a string unchanged, anything else as str() gives it) and nothing more.
C3_BodyIsHeaderPlusText ==
    (IsSave /\ last.ok) =>
        /\ ret \in DOMAIN files
        /\ files[ret] = ExpectedHeader(last.ts, last.uid)
                        \o ExpectedText(last.content)

C3_Witness ==
    /\ IsSave /\ last.ok
    /\ last.content = PyInt(0 - 7)
    /\ EndsWith(files[ret], <<"\n", "\n", "-", "7">>)

\* C4: after a successful save_output_markdown the timestamp and the run id
\* on the "Generated:" and "Run ID:" lines of the file are the ones in the
\* file's name, and the returned path is the file that was written.
C4_HeaderMatchesName ==
    (IsSave /\ last.ok) =>
        /\ ret = last.written
        /\ ret \in DOMAIN files
        /\ LET name == ReturnedName
               stamp == SubSeq(name, 18, Len(name) - 12)
               id == SubSeq(name, Len(name) - 10, Len(name) - 3)
               lines == SplitLines(files[ret])
           IN  /\ Len(lines) >= 4
               /\ lines[3] = <<"G", "e", "n", "e", "r", "a", "t", "e", "d",
                               ":", " ">> \o stamp \o <<" ", "U", "T", "C">>
               /\ lines[4] = <<"R", "u", "n", " ", "I", "D", ":", " ">> \o id

C4_Witness ==
    /\ IsSave /\ last.ok
    /\ last.uid = <<"d", "e", "a", "d", "b", "e", "e", "f">>
    /\ SplitLines(files[ret])[4]
         = <<"R", "u", "n", " ", "I", "D", ":", " ",
             "d", "e", "a", "d", "b", "e", "e", "f">>

\* C5: the file name save_output_markdown generates is customer_support_,
\* eight digits, T, six digits, Z, _, eight lowercase hex digits, .md, and the
\* file lies directly inside outputs_dir.
C5_NamePattern ==
    (IsSave /\ last.ok) =>
        /\ StartsWith(ret, last.outputs_dir \o <<"/">>)
        /\ LET name == ReturnedName
           IN  /\ Len(name) = 45
               /\ \A i \in DOMAIN name : name[i] # "/"
               /\ SubSeq(name, 1, 17)
                    = <<"c", "u", "s", "t", "o", "m", "e", "r", "_",
                        "s", "u", "p", "p", "o", "r", "t", "_">>
               /\ \A i \in 18..25 : name[i] \in Range(Digits)
               /\ name[26] = "T"
               /\ \A i \in 27..32 : name[i] \in Range(Digits)
               /\ name[33] = "Z"
               /\ name[34] = "_"
               /\ \A i \in 35..42 : name[i] \in Range(HexDigits)
               /\ SubSeq(name, 43, 45) = <<".", "m", "d">>

C5_Witness ==
    /\ IsSave /\ last.ok
    /\ SubSeq(ReturnedName, 18, 33)
         = <<"1", "9", "7", "0", "0", "1", "0", "1", "T",
             "0", "0", "0", "0", "0", "0", "Z">>

\* no component of outputs_dir is a regular file before the call
C6_PathFree == \A a \in ExpectedParents(last.outputs_dir) : a \notin DOMAIN last.files

\* C6: when the operating system refuses nothing, save_output_markdown
\* succeeds whether outputs_dir and its parents are missing or present:
\* afterwards outputs_dir and every parent is a directory and the file is in
\* it; and the call removes nothing: every directory and file that was there
\* before is still there, every other file with its body.
C6_DirectoryEnsured ==
    IsSave =>
        /\ (last.fault = "none" /\ C6_PathFree) =>
              /\ last.ok
              /\ exc = "none"
              /\ ExpectedParents(last.outputs_dir) \subseteq dirs
              /\ ret \in DOMAIN files
        /\ last.dirs \subseteq dirs
        /\ DOMAIN last.files \subseteq DOMAIN files
        /\ last.ok =>
              \A p \in DOMAIN last.files : p # ret => files[p] = last.files[p]

C6_Witness ==
    /\ IsSave /\ last.ok
    /\ last.outputs_dir = <<"a", "/", "b">>
    /\ <<"a">> \notin last.dirs
    /\ {<<"a">>, <<"a", "/", "b">>} \subseteq dirs

\* the error of the first operation that fails: directory creation (refused,
\* or a regular file in the way), else the write
C7_OsError ==
    IF last.fault = "mkdir_EACCES" THEN "PermissionError"
    ELSE IF last.outputs_dir \in DOMAIN last.files THEN "FileExistsError"
    ELSE IF ~C6_PathFree THEN "NotADirectoryError"
    ELSE IF last.fault = "write_EACCES" THEN "PermissionError"
    ELSE "OSError"

\* C7: when directory creation or the write fails, save_output_markdown
\* raises that very error, returns no path, and has made each file-system
\* operation at most once, none after the one that failed.
C7_ErrorsPropagate ==
    (IsSave /\ (last.fault # "none" \/ ~C6_PathFree)) =>
        /\ ~last.ok
        /\ exc = C7_OsError
        /\ ret = NoPath
        /\ pc \in {"raised", "failed"}
        /\ last.ops = IF last.fault \in {"write_EACCES", "write_ENOSPC"}
                         /\ C6_PathFree
                      THEN <<"mkdir", "write_text">> ELSE <<"mkdir">>

C7_Witness ==
    IsSave /\ last.fault = "write_ENOSPC" /\ exc = "OSError" /\ ret = NoPath

\* the files the run created or changed
ChangedFiles ==
    {p \in DOMAIN files : p \notin DOMAIN fs0.files \/ files[p] # fs0.files[p]}

\* C8: in a run that completes, kickoff was called exactly once, on a crew of
\* exactly two agents and the two tasks inquiry resolution then quality
\* assurance review, and exactly one file was written, after kickoff returned.
C8_OneKickoffOneFile ==
    pc = "done" =>
        /\ Len(kickoffs) = 1
        /\ Count(trace, "kickoff") = 1
        /\ Len(kickoffs[1].agents) = 2
        /\ [i \in 1..2 |-> kickoffs[1].agents[i].name]
             = <<"support_agent", "qa_agent">>
        /\ [i \in DOMAIN kickoffs[1].tasks |-> kickoffs[1].tasks[i].name]
             = <<"inquiry_resolution", "quality_assurance_review">>
        /\ Count(trace, "save_output_markdown") = 1
        /\ Count(last.ops, "write_text") = 1
        /\ Cardinality(ChangedFiles) = 1
        /\ IndexOf(trace, "kickoff_returned") < IndexOf(trace, "save_output_markdown")

C8_Witness ==
    pc = "done" /\ Len(kickoffs) = 1 /\ Cardinality(ChangedFiles) = 1

\* C9: the content given to save_output_markdown is result.raw whenever the
\* result has that attribute, whatever its value, and str(result) only when
\* it has not; the file is the header followed by the textual form of it.
C9_RawOrStr ==
    (pc = "done") =>
        /\ last.content = (IF result.hasRaw THEN result.raw
                           ELSE [kind |-> "str", s |-> result.str, n |-> 0])
        /\ files[ret] = ExpectedHeader(last.ts, last.uid)
                        \o ExpectedText(last.content)

C9_Witness ==
    /\ pc = "done"
    /\ result.hasRaw /\ result.raw = PyString(<<>>)
    /\ files[ret] = ExpectedHeader(last.ts, last.uid)

KeyMissing == ~env0.OPENAI_API_KEY.set \/ env0.OPENAI_API_KEY.val = ""

\* C10: the file system is touched only after the credential check passed and
\* kickoff returned; with the key unset or empty the run ends at the check,
\* with OPENAI_MODEL_NAME not set and nothing built or kicked off; when
\* kickoff raises, the run ends with that error and saves nothing.
C10_WriteOnlyAfterKeyAndKickoff ==
    /\ (last.op # "none" \/ files # fs0.files \/ dirs # fs0.dirs) =>
          /\ ~KeyMissing
          /\ Count(trace, "kickoff_returned") = 1
    /\ (KeyMissing /\ pc # "start") =>
          /\ pc = "failed"
          /\ exc = "RuntimeError"
          /\ env = env0
          /\ trace = <<"get_openai_api_key">>
          /\ agents = <<>> /\ tasks = <<>> /\ ~crew.built /\ kickoffs = <<>>
    /\ Count(trace, "kickoff_raised") > 0 =>
          /\ pc = "failed"
          /\ exc = "OrchestratorError"
          /\ last.op = "none"
          /\ files = fs0.files /\ dirs = fs0.dirs

C10_Witness ==
    /\ pc = "failed"
    /\ env0.OPENAI_API_KEY = EnvVal("")
    /\ trace = <<"get_openai_api_key">>

====
